---- MODULE Spec2Model ----
(***************************************************************************)
(* Model of the qtree crate (src/src/lib.rs): the QuadTree facade (item    *)
(* map, handle counter) over the recursive QuadTreeInner partition.        *)
(*                                                                         *)
(* Coordinates are integers; the root region and min_size are chosen so    *)
(* that every midpoint (a + b) / 2.0 the code computes on a node that can  *)
(* be routed through is an integer, hence exact as in f32.                 *)
(* The tree is a function from node index to node record: the root is      *)
(* index 0 and the i-th entry of node n's `quads` array is 4 * n + 1 + i.  *)
(***************************************************************************)
EXTENDS Integers, Sequences, FiniteSets, TLC

VARIABLES
    nodes,            \* QuadTree.nodes: handle -> item
    handle_counter,   \* QuadTree.handle_counter
    tree,             \* QuadTree.tree: node index -> QuadTreeInner
    last,             \* the call made last: operation, insert's position, Err?
    bound_log,        \* history: the handles bound to an item, in binding order
    panicked,         \* an unwrap() hit a missing map entry
    pc,               \* step-wise specification: the call whose loop is running
    splits,           \* step-wise specification: the pending-handles worklist
    iters             \* step-wise specification: loop iterations of this call

vars == <<nodes, handle_counter, tree, last, bound_log, panicked, pc, splits, iters>>

\* ------------------------------------------------------------------ bounds
\* insert is offered while handle_counter is below this (all operations)
MaxHandles == 2
\* insert is offered while handle_counter is below this (insert and remove only)
MaxFixedHandles == 5
\* largest query radius of the searches the properties look at
MaxR == 6
\* cap on worklist iterations of one call in the step-wise specification
MaxIters == 3
\* reinsert is offered while the leaves hold fewer handle entries than this
MaxTreeLen == 3

\* ------------------------------------------------- construction parameters
max_nodes == 1
min_size == 1
top_left == <<0, 0>>
bot_right == <<4, 4>>

\* positions the caller passes: the two working quadrants, the root midpoint,
\* the two other quadrants, and one point outside the root region
InPositions == {<<1, 1>>, <<2, 2>>, <<3, 3>>, <<1, 3>>, <<3, 1>>}
OutPositions == {<<5, 3>>}
Positions == InPositions \cup OutPositions
\* the positions used when items also move
RelocPositions == {<<2, 2>>, <<3, 3>>, <<1, 3>>} \cup OutPositions
Handles == 0 .. (MaxHandles - 1)
FixedHandles == 0 .. (MaxFixedHandles - 1)
QueryPositions == {<<0, 0>>, <<1, 1>>, <<2, 2>>, <<3, 3>>, <<1, 3>>, <<3, 1>>, <<5, 3>>}
Radii == 0 .. MaxR

NoItem == [pos |-> <<-9, -9>>]
NoPos == <<-9, -9>>

\* ------------------------------------------------------------------ helpers
Abs(x) == IF x < 0 THEN 0 - x ELSE x

\* (a + b) / 2.0
Mid(a, b) == (a + b) \div 2

\* Position::position of an item
position(item) == item.pos

\* QuadTreeInner::new
inner_new(tl, br) == [nodes |-> <<>>, top_left |-> tl, bot_right |-> br, quads |-> FALSE]

quad(n, i) == 4 * n + 1 + i

\* in_boundary without the test against the right edge
in_boundary_no_right(self, pos) ==
    /\ pos[1] >= self.top_left[1]
    /\ pos[2] >= self.top_left[2]
    /\ pos[2] <= self.bot_right[2]

\* QuadTreeInner::in_boundary
in_boundary(self, pos) ==
    /\ pos[1] >= self.top_left[1]
    /\ pos[1] <= self.bot_right[1]
    /\ pos[2] >= self.top_left[2]
    /\ pos[2] <= self.bot_right[2]

\* partition_point with the predicate reversed (|&x| x > handle)
RECURSIVE partition_point_above(_, _, _, _)
partition_point_above(v, handle, lo, hi) ==
    IF lo >= hi THEN lo
    ELSE LET m == (lo + hi) \div 2 IN
         IF v[m + 1] > handle
         THEN partition_point_above(v, handle, m + 1, hi)
         ELSE partition_point_above(v, handle, lo, m)

\* Vec::partition_point(|&x| x < handle): binary search for the first index
\* (0-based) whose element is not below handle
RECURSIVE partition_point(_, _, _, _)
partition_point(v, handle, lo, hi) ==
    IF lo >= hi THEN lo
    ELSE LET m == (lo + hi) \div 2 IN
         IF v[m + 1] < handle
         THEN partition_point(v, handle, m + 1, hi)
         ELSE partition_point(v, handle, lo, m)

\* Vec::insert(idx, handle), idx 0-based
vec_insert(v, idx, handle) ==
    SubSeq(v, 1, idx) \o <<handle>> \o SubSeq(v, idx + 1, Len(v))

\* Vec::binary_search(&handle): the 0-based index of a match, or -1
RECURSIVE binary_search(_, _, _, _)
binary_search(v, handle, lo, hi) ==
    IF lo >= hi THEN -1
    ELSE LET m == (lo + hi) \div 2 IN
         IF v[m + 1] = handle THEN m
         ELSE IF v[m + 1] < handle
              THEN binary_search(v, handle, m + 1, hi)
              ELSE binary_search(v, handle, lo, m)

\* Vec::remove(n), n 0-based
vec_remove(v, n) == SubSeq(v, 1, n) \o SubSeq(v, n + 2, Len(v))

\* insert_quadrant with the midpoint itself routed right/bottom (> for >=)
insert_quadrant_strict(self, pos) ==
    IF Mid(self.top_left[1], self.bot_right[1]) > pos[1]
    THEN (IF Mid(self.top_left[2], self.bot_right[2]) > pos[2] THEN 0 ELSE 1)
    ELSE (IF Mid(self.top_left[2], self.bot_right[2]) > pos[2] THEN 2 ELSE 3)

\* the quadrant index QuadTreeInner::insert routes pos to
insert_quadrant(self, pos) ==
    IF Mid(self.top_left[1], self.bot_right[1]) >= pos[1]
    THEN (IF Mid(self.top_left[2], self.bot_right[2]) >= pos[2] THEN 0 ELSE 1)
    ELSE (IF Mid(self.top_left[2], self.bot_right[2]) >= pos[2] THEN 2 ELSE 3)

\* remove_quadrant with the midpoint itself routed right/bottom (> for >=)
remove_quadrant_strict(self, pos) ==
    IF Mid(self.top_left[1], self.bot_right[1]) > pos[1]
    THEN (IF Mid(self.top_left[2], self.bot_right[2]) > pos[2] THEN 0 ELSE 1)
    ELSE (IF Mid(self.top_left[2], self.bot_right[2]) > pos[2] THEN 2 ELSE 3)

\* the quadrant index QuadTreeInner::remove routes pos to
remove_quadrant(self, pos) ==
    IF Mid(self.top_left[1], self.bot_right[1]) >= pos[1]
    THEN (IF Mid(self.top_left[2], self.bot_right[2]) >= pos[2] THEN 0 ELSE 1)
    ELSE (IF Mid(self.top_left[2], self.bot_right[2]) >= pos[2] THEN 2 ELSE 3)

\* the four regions QuadTreeInner::split builds, in the order it stores them
\* in `quads`: top_left_quad, top_right_quad, bot_left_quad, bot_right_quad
split_quads(self) ==
    LET mx == Mid(self.top_left[1], self.bot_right[1])
        my == Mid(self.top_left[2], self.bot_right[2])
    IN  << inner_new(self.top_left, <<mx, my>>),
           inner_new(<<mx, self.top_left[2]>>, <<mx, my>>),
           inner_new(<<self.top_left[1], my>>, <<mx, self.bot_right[2]>>),
           inner_new(<<mx, my>>, self.bot_right) >>

\* QuadTreeInner::split on node n: the tree afterwards
split(t, n) ==
    LET qs == split_quads(t[n])
        kids == {quad(n, i) : i \in 0 .. 3}
    IN  [m \in DOMAIN t \cup kids |->
            IF m = n THEN [t[n] EXCEPT !.quads = TRUE, !.nodes = <<>>]
            ELSE IF m \in kids THEN qs[m - 4 * n]
            ELSE t[m]]

\* the leaf test without the min_size clauses
has_room_no_min(self) == Len(self.nodes) < max_nodes

\* the leaf test with the capacity comparison off by one (<= for <)
has_room_at_capacity(self) ==
    \/ Len(self.nodes) <= max_nodes
    \/ Abs(self.top_left[1] - self.bot_right[1]) <= min_size
    \/ Abs(self.top_left[2] - self.bot_right[2]) <= min_size

\* the leaf test of QuadTreeInner::insert: store here rather than split
has_room(self) ==
    \/ Len(self.nodes) < max_nodes
    \/ Abs(self.top_left[1] - self.bot_right[1]) <= min_size
    \/ Abs(self.top_left[2] - self.bot_right[2]) <= min_size

\* QuadTreeInner::insert on node n: [err, tree, ret]
RECURSIVE inner_insert(_, _, _, _)
inner_insert(t, n, pos, handle) ==
    IF ~in_boundary(t[n], pos)
    THEN [err |-> TRUE, tree |-> t, ret |-> <<>>]
    ELSE IF ~t[n].quads
    THEN IF has_room(t[n])
         THEN LET idx == partition_point(t[n].nodes, handle, 0, Len(t[n].nodes))
              IN  [err |-> FALSE,
                   tree |-> [t EXCEPT ![n].nodes = vec_insert(@, idx, handle)],
                   ret |-> <<>>]
         ELSE [err |-> FALSE, tree |-> split(t, n), ret |-> t[n].nodes]
    ELSE LET r == inner_insert(t, quad(n, insert_quadrant(t[n], pos)), pos, handle)
         IN  IF r.err
             THEN [err |-> TRUE, tree |-> r.tree, ret |-> <<>>]
             ELSE [err |-> FALSE, tree |-> r.tree, ret |-> <<>>]

\* QuadTreeInner::remove on node n: [tree, ret], ret the handle removed or -1
RECURSIVE inner_remove(_, _, _, _)
inner_remove(t, n, handle, pos) ==
    IF ~in_boundary(t[n], pos)
    THEN [tree |-> t, ret |-> -1]
    ELSE IF ~t[n].quads
    THEN LET i == binary_search(t[n].nodes, handle, 0, Len(t[n].nodes))
         IN  IF i >= 0
             THEN [tree |-> [t EXCEPT ![n].nodes = vec_remove(@, i)],
                   ret |-> t[n].nodes[i + 1]]
             ELSE [tree |-> t, ret |-> -1]
    ELSE inner_remove(t, quad(n, remove_quadrant(t[n], pos)), handle, pos)

\* the leaf QuadTreeInner::remove reaches from node n for pos, or -1 when a
\* node on the way does not hold pos in its region
RECURSIVE remove_leaf(_, _, _)
remove_leaf(t, n, pos) ==
    IF ~in_boundary(t[n], pos) THEN -1
    ELSE IF ~t[n].quads THEN n
    ELSE remove_leaf(t, quad(n, remove_quadrant(t[n], pos)), pos)

\* the leaf QuadTreeInner::insert reaches from node n for pos, or -1 when a
\* node on the way does not hold pos in its region
RECURSIVE insert_leaf(_, _, _)
insert_leaf(t, n, pos) ==
    IF ~in_boundary(t[n], pos) THEN -1
    ELSE IF ~t[n].quads THEN n
    ELSE insert_leaf(t, quad(n, insert_quadrant(t[n], pos)), pos)

\* contains_circle without the clamping: the region's top-left corner is the
\* test point
contains_circle_corner(self, pos, r) ==
    LET tx == self.top_left[1]
        ty == self.top_left[2]
    IN  Abs(tx - pos[1]) * Abs(tx - pos[1]) + Abs(ty - pos[2]) * Abs(ty - pos[2]) <= r * r

\* QuadTreeInner::contains_circle
contains_circle(self, pos, r) ==
    LET tx == IF pos[1] < self.top_left[1] THEN self.top_left[1]
              ELSE IF pos[1] > self.bot_right[1] THEN self.bot_right[1]
              ELSE pos[1]
        ty == IF pos[2] < self.top_left[2] THEN self.top_left[2]
              ELSE IF pos[2] > self.bot_right[2] THEN self.bot_right[2]
              ELSE pos[2]
    IN  Abs(tx - pos[1]) * Abs(tx - pos[1]) + Abs(ty - pos[2]) * Abs(ty - pos[2]) <= r * r

\* QuadTreeInner::search_radius on node n: the handles, in traversal order
RECURSIVE inner_search_radius(_, _, _, _)
inner_search_radius(t, n, pos, r) ==
    IF t[n].quads
    THEN LET part(i) == IF contains_circle(t[quad(n, i)], pos, r)
                        THEN inner_search_radius(t, quad(n, i), pos, r)
                        ELSE <<>>
         IN  part(0) \o part(1) \o part(2) \o part(3)
    ELSE t[n].nodes

\* total number of handle entries held by the leaves of t
RECURSIVE TreeLen(_, _)
TreeLen(t, ns) ==
    IF ns = {} THEN 0
    ELSE LET n == CHOOSE m \in ns : TRUE
         IN  Len(t[n].nodes) + TreeLen(t, ns \ {n})

\* ------------------------------------------------------------------ facade
\* worklist_step that reads the last pending handle without popping it
worklist_step_no_pop(nds, t, spl) ==
    LET id == spl[Len(spl)]
    IN  IF id \notin DOMAIN nds
        THEN [err |-> FALSE, panic |-> TRUE, tree |-> t, splits |-> spl]
        ELSE LET r == inner_insert(t, 0, position(nds[id]), id)
             IN  IF r.err
                 THEN [err |-> TRUE, panic |-> FALSE, tree |-> r.tree, splits |-> spl]
                 ELSE [err |-> FALSE, panic |-> FALSE, tree |-> r.tree,
                       splits |-> spl \o r.ret]

\* one iteration of the `while let Some(id) = splits.pop()` loop of
\* QuadTree::insert and QuadTree::reinsert, spl not empty
worklist_step(nds, t, spl) ==
    LET id == spl[Len(spl)]
        rest == SubSeq(spl, 1, Len(spl) - 1)
    IN  IF id \notin DOMAIN nds
        THEN [err |-> FALSE, panic |-> TRUE, tree |-> t, splits |-> rest]
        ELSE LET r == inner_insert(t, 0, position(nds[id]), id)
             IN  IF r.err
                 THEN [err |-> TRUE, panic |-> FALSE, tree |-> r.tree, splits |-> rest]
                 ELSE [err |-> FALSE, panic |-> FALSE, tree |-> r.tree,
                       splits |-> rest \o r.ret]

\* the whole loop: [err, panic, tree]
RECURSIVE worklist(_, _, _)
worklist(nds, t, spl) ==
    IF spl = <<>>
    THEN [err |-> FALSE, panic |-> FALSE, tree |-> t]
    ELSE LET s == worklist_step(nds, t, spl)
         IN  IF s.err \/ s.panic
             THEN [err |-> s.err, panic |-> s.panic, tree |-> s.tree]
             ELSE worklist(nds, s.tree, s.splits)

\* the item map with handle id bound to item (HashMap::insert)
map_insert(nds, id, item) ==
    [k \in DOMAIN nds \cup {id} |-> IF k = id THEN item ELSE nds[k]]

\* the item map without handle id (HashMap::remove)
map_remove(nds, id) == [k \in DOMAIN nds \ {id} |-> nds[k]]

\* insert_begin without `self.handle_counter += 1`
insert_begin_no_increment(nds, hc, t, item, pos) ==
    LET r == inner_insert(t, 0, pos, hc)
    IN  IF r.err
        THEN [err |-> TRUE, nodes |-> nds, handle_counter |-> hc, tree |-> r.tree,
              splits |-> <<>>]
        ELSE [err |-> FALSE, nodes |-> map_insert(nds, hc, item),
              handle_counter |-> hc, tree |-> r.tree, splits |-> r.ret]

\* QuadTree::insert before its loop: the first tree insert, then the map
\* entry and the counter: [err, nodes, handle_counter, tree, splits]
insert_begin(nds, hc, t, item, pos) ==
    LET r == inner_insert(t, 0, pos, hc)
    IN  IF r.err
        THEN [err |-> TRUE, nodes |-> nds, handle_counter |-> hc, tree |-> r.tree,
              splits |-> <<>>]
        ELSE [err |-> FALSE, nodes |-> map_insert(nds, hc, item),
              handle_counter |-> hc + 1, tree |-> r.tree, splits |-> r.ret]

\* QuadTree::insert: [err, panic, nodes, handle_counter, tree]
qt_insert(nds, hc, t, item, pos) ==
    LET b == insert_begin(nds, hc, t, item, pos)
    IN  IF b.err
        THEN [err |-> TRUE, panic |-> FALSE, nodes |-> b.nodes,
              handle_counter |-> b.handle_counter, tree |-> b.tree]
        ELSE LET w == worklist(b.nodes, b.tree, b.splits)
             IN  [err |-> w.err, panic |-> w.panic, nodes |-> b.nodes,
                  handle_counter |-> b.handle_counter, tree |-> w.tree]

\* QuadTree::remove: [nodes, tree, ret], ret the item or NoItem
qt_remove(nds, t, id, pos) ==
    [nodes |-> map_remove(nds, id),
     tree |-> inner_remove(t, 0, id, pos).tree,
     ret |-> IF id \in DOMAIN nds THEN nds[id] ELSE NoItem]

\* QuadTree::reinsert before its loop: [err, panic, tree, splits]
reinsert_begin(nds, t, id, old_pos) ==
    LET t1 == inner_remove(t, 0, id, old_pos).tree
    IN  IF id \notin DOMAIN nds
        THEN [err |-> FALSE, panic |-> TRUE, tree |-> t1, splits |-> <<>>]
        ELSE LET r == inner_insert(t1, 0, position(nds[id]), id)
             IN  [err |-> r.err, panic |-> FALSE, tree |-> r.tree, splits |-> r.ret]

\* QuadTree::reinsert: [err, panic, tree]
qt_reinsert(nds, t, id, old_pos) ==
    LET b == reinsert_begin(nds, t, id, old_pos)
    IN  IF b.err \/ b.panic
        THEN [err |-> b.err, panic |-> b.panic, tree |-> b.tree]
        ELSE worklist(nds, b.tree, b.splits)

\* QuadTree::search_radius_ids
search_radius_ids(t, pos, r) == inner_search_radius(t, 0, pos, r)

\* the exact filter of QuadTree::search_radius on one item position
within(p, pos, r) ==
    Abs(p[1] - pos[1]) * Abs(p[1] - pos[1]) + Abs(p[2] - pos[2]) * Abs(p[2] - pos[2])
        <= r * r

\* QuadTree::search_radius: [panic, result]; a returned reference &T is
\* modelled by the key of the map entry it points to
search_radius(nds, t, pos, r) ==
    LET ks == inner_search_radius(t, 0, pos, r)
    IN  IF \E i \in 1 .. Len(ks) : ks[i] \notin DOMAIN nds
        THEN [panic |-> TRUE, result |-> <<>>]
        ELSE [panic |-> FALSE,
              result |-> SelectSeq(ks, LAMBDA k : within(position(nds[k]), pos, r))]

\* ------------------------------------------------------------------- state
Call(op, pos, err) == [op |-> op, pos |-> pos, err |-> err]

\* QuadTree::new
Init ==
    /\ nodes = <<>>
    /\ handle_counter = 0
    /\ tree = [n \in {0} |-> inner_new(top_left, bot_right)]
    /\ last = Call("new", NoPos, FALSE)
    /\ bound_log = <<>>
    /\ panicked = FALSE
    /\ pc = "idle"
    /\ splits = <<>>
    /\ iters = 0

Ready == pc = "idle" /\ ~panicked

\* an unwrap() on a missing map entry aborts the program
Abort ==
    /\ panicked' = TRUE
    /\ UNCHANGED <<nodes, handle_counter, tree, last, bound_log, pc, splits, iters>>

\* a call of QuadTree::insert with an item that reports pos
Insert(pos) ==
    /\ Ready
    /\ LET r == qt_insert(nodes, handle_counter, tree, [pos |-> pos], pos)
       IN  IF r.panic THEN Abort
           ELSE /\ nodes' = r.nodes
                /\ handle_counter' = r.handle_counter
                /\ tree' = r.tree
                /\ last' = Call("insert", pos, r.err)
                /\ bound_log' =
                       IF insert_begin(nodes, handle_counter, tree, [pos |-> pos], pos).err
                       THEN bound_log
                       ELSE Append(bound_log, handle_counter)
                /\ UNCHANGED <<panicked, pc, splits, iters>>

\* a call of QuadTree::remove
Remove(id, pos) ==
    /\ Ready
    /\ LET r == qt_remove(nodes, tree, id, pos)
       IN  /\ nodes' = r.nodes
           /\ tree' = r.tree
           /\ last' = Call("remove", NoPos, FALSE)
    /\ UNCHANGED <<handle_counter, bound_log, panicked, pc, splits, iters>>

\* a call of QuadTree::reinsert
Reinsert(id, old_pos) ==
    /\ Ready
    /\ TreeLen(tree, DOMAIN tree) < MaxTreeLen
    /\ LET r == qt_reinsert(nodes, tree, id, old_pos)
       IN  IF r.panic THEN Abort
           ELSE /\ tree' = r.tree
                /\ last' = Call("reinsert", NoPos, r.err)
                /\ UNCHANGED <<nodes, handle_counter, bound_log, panicked, pc,
                               splits, iters>>

\* the caller moves a stored item through the public `nodes` map
Move(id, q) ==
    /\ Ready
    /\ id \in DOMAIN nodes
    /\ q # position(nodes[id])
    /\ nodes' = [nodes EXCEPT ![id] = [pos |-> q]]
    /\ last' = Call("move", NoPos, FALSE)
    /\ UNCHANGED <<handle_counter, tree, bound_log, panicked, pc, splits, iters>>

Next ==
    \/ \E pos \in RelocPositions : handle_counter < MaxHandles /\ Insert(pos)
    \/ \E id \in Handles, pos \in RelocPositions : Remove(id, pos)
    \/ \E id \in Handles, pos \in RelocPositions : Reinsert(id, pos)
    \/ \E id \in Handles, q \in RelocPositions : Move(id, q)

Spec == Init /\ [][Next]_vars

\* the three calls of the facade alone: items stay where they were inserted,
\* the position arguments of remove and reinsert are the caller's choice
NextCalls ==
    \/ \E pos \in RelocPositions : handle_counter < MaxHandles /\ Insert(pos)
    \/ \E id \in Handles, pos \in RelocPositions : Remove(id, pos)
    \/ \E id \in Handles, pos \in RelocPositions : Reinsert(id, pos)

SpecCalls == Init /\ [][NextCalls]_vars

\* items move: insert, moves of stored items through the public map, and
\* reinsert with any old_pos, before or after or without a move
NextMoves ==
    \/ \E pos \in RelocPositions : handle_counter < MaxHandles /\ Insert(pos)
    \/ \E id \in Handles, q \in RelocPositions : Move(id, q)
    \/ \E id \in Handles, pos \in RelocPositions : Reinsert(id, pos)

SpecMoves == Init /\ [][NextMoves]_vars

\* item positions fixed: only insert and remove, no relocation
NextFixed ==
    \/ \E pos \in Positions : handle_counter < MaxFixedHandles /\ Insert(pos)
    \/ \E id \in FixedHandles, pos \in Positions : Remove(id, pos)

SpecFixed == Init /\ [][NextFixed]_vars

\* ------------------------------------------------ step-wise specification
\* QuadTree::insert up to its loop
InsertCall(pos) ==
    /\ Ready
    /\ LET b == insert_begin(nodes, handle_counter, tree, [pos |-> pos], pos)
       IN  /\ nodes' = b.nodes
           /\ handle_counter' = b.handle_counter
           /\ tree' = b.tree
           /\ splits' = b.splits
           /\ last' = Call("insert", pos, b.err)
           /\ bound_log' = IF b.err THEN bound_log ELSE Append(bound_log, handle_counter)
           /\ pc' = IF b.err THEN "idle" ELSE "insert"
    /\ iters' = 0
    /\ UNCHANGED panicked

\* QuadTree::reinsert up to its loop
ReinsertCall(id, old_pos) ==
    /\ Ready
    /\ TreeLen(tree, DOMAIN tree) < MaxTreeLen
    /\ LET b == reinsert_begin(nodes, tree, id, old_pos)
       IN  IF b.panic THEN Abort
           ELSE /\ tree' = b.tree
                /\ splits' = b.splits
                /\ last' = Call("reinsert", NoPos, b.err)
                /\ pc' = IF b.err THEN "idle" ELSE "reinsert"
                /\ iters' = 0
                /\ UNCHANGED <<nodes, handle_counter, bound_log, panicked>>

\* one iteration of `while let Some(id) = splits.pop()`
LoopStep ==
    /\ pc # "idle"
    /\ ~panicked
    /\ splits # <<>>
    /\ iters < MaxIters
    /\ LET s == worklist_step(nodes, tree, splits)
       IN  IF s.panic THEN Abort
           ELSE /\ tree' = s.tree
                /\ splits' = IF s.err THEN <<>> ELSE s.splits
                /\ last' = [last EXCEPT !.err = s.err]
                /\ pc' = IF s.err THEN "idle" ELSE pc
                /\ iters' = iters + 1
                /\ UNCHANGED <<nodes, handle_counter, bound_log, panicked>>

\* the loop finds the worklist empty and the call returns Ok(())
Return ==
    /\ pc # "idle"
    /\ ~panicked
    /\ splits = <<>>
    /\ pc' = "idle"
    /\ UNCHANGED <<nodes, handle_counter, tree, last, bound_log, panicked, splits, iters>>

NextLoop ==
    \/ \E pos \in RelocPositions : handle_counter < MaxHandles /\ InsertCall(pos)
    \/ \E id \in Handles, pos \in RelocPositions : Remove(id, pos)
    \/ \E id \in Handles, pos \in RelocPositions : ReinsertCall(id, pos)
    \/ \E id \in Handles, q \in RelocPositions : Move(id, q)
    \/ LoopStep
    \/ Return

\* a call that has started keeps running: the program is sequential
SpecLoop == Init /\ [][NextLoop]_vars /\ WF_vars(LoopStep) /\ WF_vars(Return)

\* only calls that succeed, item positions fixed: insert that returns Ok and
\* remove of a stored item at the position the item reports
InsertOk(pos) == Insert(pos) /\ ~last'.err /\ ~panicked'

RemoveStored(id) == id \in DOMAIN nodes /\ Remove(id, position(nodes[id]))

NextClean ==
    \/ \E pos \in Positions : handle_counter < MaxFixedHandles /\ InsertOk(pos)
    \/ \E id \in FixedHandles : RemoveStored(id)

SpecClean == Init /\ [][NextClean]_vars

\* ---------------------------------------------------------------- properties
SeqSet(s) == {s[i] : i \in 1 .. Len(s)}

NoDup(s) == \A i, j \in 1 .. Len(s) : i # j => s[i] # s[j]

\* the handles held by the leaves of t
TreeHandles(t) == UNION {SeqSet(t[n].nodes) : n \in DOMAIN t}

\* brute-force scan of the item map
Hits(pos, r) == {h \in DOMAIN nodes : within(position(nodes[h]), pos, r)}

\* the integer grid around the root region
Grid == {<<x, y>> : x \in (top_left[1] - 1) .. (bot_right[1] + 1),
                    y \in (top_left[2] - 1) .. (bot_right[2] + 1)}
InGrid == {p \in Grid : /\ top_left[1] <= p[1] /\ p[1] <= bot_right[1]
                         /\ top_left[2] <= p[2] /\ p[2] <= bot_right[2]}
OutGrid == Grid \ InGrid

\* C1 (as claimed): after successful inserts and removes, search_radius(pos, r)
\* returns exactly the stored items within squared distance r * r of pos,
\* each once: the same set as a brute-force scan of the item map.
C1_RadiusExact ==
    \A pos \in QueryPositions, r \in Radii :
        LET s == search_radius(nodes, tree, pos, r)
        IN  /\ ~s.panic
            /\ SeqSet(s.result) = Hits(pos, r)
            /\ NoDup(s.result)

\* C2 (as claimed): after max_nodes + 1 inserts into the empty index (one
\* split of the root), a search whose circle covers the root region returns
\* all max_nodes + 1 items; and with A at (1,1) and B at (2,2) the search at
\* (0,0) with radius 3 returns both and with radius 1 returns neither.
C2_SplitKeepsAll ==
    (handle_counter = max_nodes + 1 /\ DOMAIN nodes = 0 .. max_nodes) =>
        /\ SeqSet(search_radius(nodes, tree, top_left, MaxR).result) = DOMAIN nodes
        /\ (position(nodes[0]) = <<1, 1>> /\ position(nodes[max_nodes]) = <<2, 2>>) =>
              /\ {0, max_nodes} \subseteq
                    SeqSet(search_radius(nodes, tree, top_left, 3).result)
              /\ search_radius(nodes, tree, top_left, 1).result = <<>>

\* C3 (as claimed): an insert at a position inside the root region, edges
\* included, returns Ok in every reachable state.
C3_InBoundsInsertOk ==
    (last.op = "insert" /\ last.pos \in InGrid) => ~last.err

\* C4: in every reachable state an insert at a position strictly outside the
\* root region returns InsertError and leaves the handle counter and the
\* number of stored items as they were.
C4_OutsideRejected ==
    \A pos \in OutGrid :
        LET r == qt_insert(nodes, handle_counter, tree, [pos |-> pos], pos)
        IN  /\ r.err
            /\ ~r.panic
            /\ r.handle_counter = handle_counter
            /\ Cardinality(DOMAIN r.nodes) = Cardinality(DOMAIN nodes)

\* C4 witness: an insert outside the root region has just failed on an index
\* whose root has split and which stores items.
C4_Witness ==
    /\ last = Call("insert", <<5, 3>>, TRUE)
    /\ tree[0].quads
    /\ DOMAIN nodes # {}

\* C5 (as claimed): an insert call that returns InsertError leaves the item
\* map, the handle counter and the whole tree as they were before the call.
C5_FailedInsertNoChange ==
    [][(last'.op = "insert" /\ last'.err) =>
          (nodes' = nodes /\ handle_counter' = handle_counter /\ tree' = tree)]_vars

\* the number of entries of handle h in the leaves ns of t
RECURSIVE Occurrences(_, _, _)
Occurrences(t, ns, h) ==
    IF ns = {} THEN 0
    ELSE LET n == CHOOSE m \in ns : TRUE
         IN  Len(SelectSeq(t[n].nodes, LAMBDA k : k = h)) + Occurrences(t, ns \ {n}, h)

\* handle h is stored in the leaf that routing pos reaches
StoredAt(t, h, pos) ==
    /\ remove_leaf(t, 0, pos) >= 0
    /\ h \in SeqSet(t[remove_leaf(t, 0, pos)].nodes)

\* C6 (as claimed): remove(handle, pos) with the handle not stored in the leaf
\* that routing pos reaches returns nothing and leaves the item map and the
\* tree unchanged.
C6_AbsentRemoveNothing ==
    \A id \in Handles, pos \in Grid :
        ~StoredAt(tree, id, pos) =>
            LET r == qt_remove(nodes, tree, id, pos)
            IN  r.ret = NoItem /\ r.nodes = nodes /\ r.tree = tree

\* C7: right after a successful insert of item X at P, remove(h, P) with h the
\* handle that insert used (the counter value before the call) returns X, and
\* afterwards no search_radius centered at P returns X and no
\* search_radius_ids returns h, for any radius.
C7_RoundTrip ==
    (last.op = "insert" /\ ~last.err) =>
        LET h == handle_counter - 1
            r == qt_remove(nodes, tree, h, last.pos)
        IN  /\ r.ret = [pos |-> last.pos]
            /\ \A rad \in Radii :
                  h \notin SeqSet(search_radius(r.nodes, r.tree, last.pos, rad).result)
            /\ \A q \in QueryPositions, rad \in Radii :
                  h \notin SeqSet(search_radius_ids(r.tree, q, rad))

\* C7 witness: a successful insert has just stored its handle in a child of
\* the split root, beside another stored handle, and the item is found by a
\* search at its position before the remove.
C7_Witness ==
    /\ last.op = "insert" /\ ~last.err /\ ~panicked
    /\ tree[0].quads
    /\ (handle_counter - 1) \in TreeHandles(tree)
    /\ TreeHandles(tree) # {handle_counter - 1}
    /\ TreeHandles(tree) \subseteq DOMAIN nodes
    /\ (handle_counter - 1) \in SeqSet(search_radius(nodes, tree, last.pos, 0).result)

\* C8 (as claimed): when h is stored in the leaf that old_pos reaches and its
\* item reports an in-bounds position Q, a reinsert(h, old_pos) that returns Ok
\* leaves h in exactly one leaf, whose region holds Q, and keeps every other
\* handle of the tree in the tree. Stated for trees that hold no handle twice
\* and no handle without a map entry.
C8_Relocation ==
    \A h \in DOMAIN nodes, old_pos \in RelocPositions :
        (/\ StoredAt(tree, h, old_pos)
         /\ position(nodes[h]) \in InGrid
         /\ TreeHandles(tree) \subseteq DOMAIN nodes
         /\ \A k \in TreeHandles(tree) : Occurrences(tree, DOMAIN tree, k) = 1) =>
            LET r == qt_reinsert(nodes, tree, h, old_pos)
            IN  (~r.err /\ ~r.panic) =>
                    /\ Occurrences(r.tree, DOMAIN r.tree, h) = 1
                    /\ \A n \in DOMAIN r.tree :
                          h \in SeqSet(r.tree[n].nodes) =>
                              in_boundary(r.tree[n], position(nodes[h]))
                    /\ (TreeHandles(tree) \ {h}) \subseteq TreeHandles(r.tree)

\* the handles bound so far are 0, 1, 2, ... in binding order, all below the
\* counter, and every key of the item map is one of them
HandlesInOrder ==
    /\ handle_counter = Len(bound_log)
    /\ \A i \in 1 .. Len(bound_log) : bound_log[i] = i - 1
    /\ \A i, j \in 1 .. Len(bound_log) : i < j => bound_log[i] < bound_log[j]
    /\ DOMAIN nodes \subseteq SeqSet(bound_log)

\* C9: the handle counter starts at 0 and never decreases; each insert that
\* binds an item uses the counter value, which is above every handle bound
\* before, so no handle is bound twice, also after its item was removed.
C9_HandlesUnique ==
    /\ handle_counter = 0
    /\ []HandlesInOrder
    /\ [][/\ handle_counter' >= handle_counter
          /\ bound_log' # bound_log =>
                /\ bound_log' = Append(bound_log, handle_counter)
                /\ handle_counter' > handle_counter
                /\ \A i \in 1 .. Len(bound_log) : bound_log[i] < handle_counter]_vars

\* C9 witness: handle 0 was bound and removed, and a later insert bound
\* handle 1 to its item.
C9_Witness ==
    /\ bound_log = <<0, 1>>
    /\ DOMAIN nodes = {1}
    /\ last.op = "insert"

\* C10: every insert and reinsert call that has entered its worklist loop
\* leaves it: the call returns (Ok or InsertError) or panics.
C10_Terminates == (pc # "idle") ~> (pc = "idle" \/ panicked)

\* C10 witness: a call whose loop re-inserted at least one pending handle has
\* returned Ok.
C10_Witness ==
    /\ pc = "idle"
    /\ iters > 0
    /\ last.op \in {"insert", "reinsert"}
    /\ ~last.err
    /\ ~panicked

\* the four quadrants of a region about its midpoint, by the index the routing
\* of insert and remove selects: 0 left/top, 1 left/bottom, 2 right/top,
\* 3 right/bottom
Quadrants(self) ==
    LET mx == Mid(self.top_left[1], self.bot_right[1])
        my == Mid(self.top_left[2], self.bot_right[2])
    IN  << [top_left |-> self.top_left, bot_right |-> <<mx, my>>],
           [top_left |-> <<self.top_left[1], my>>, bot_right |-> <<mx, self.bot_right[2]>>],
           [top_left |-> <<mx, self.top_left[2]>>, bot_right |-> <<self.bot_right[1], my>>],
           [top_left |-> <<mx, my>>, bot_right |-> self.bot_right] >>

\* C11 (as claimed): the children of every split node are the four quadrants
\* of its region about the midpoint, so together they cover it, and for every
\* position inside the node's region the child at the index that insert and
\* remove route the position to has a region that contains the position.
C11_QuadrantGeometry ==
    \A n \in DOMAIN tree :
        tree[n].quads =>
            /\ \A i \in 0 .. 3 :
                  /\ tree[quad(n, i)].top_left = Quadrants(tree[n])[i + 1].top_left
                  /\ tree[quad(n, i)].bot_right = Quadrants(tree[n])[i + 1].bot_right
            /\ \A p \in Grid :
                  in_boundary(tree[n], p) =>
                      /\ \E i \in 0 .. 3 : in_boundary(tree[quad(n, i)], p)
                      /\ in_boundary(tree[quad(n, insert_quadrant(tree[n], p))], p)
                      /\ in_boundary(tree[quad(n, remove_quadrant(tree[n], p))], p)

\* C12 (as claimed): an insert routed into a leaf below the root that is at
\* capacity and large enough to split, and that returns Ok, leaves in the tree
\* exactly the handles that were there before plus the new handle.
C12_CascadeConserves ==
    \A pos \in Positions :
        LET n == insert_leaf(tree, 0, pos)
            r == qt_insert(nodes, handle_counter, tree, [pos |-> pos], pos)
        IN  (n > 0 /\ ~has_room(tree[n]) /\ ~r.err /\ ~r.panic) =>
                TreeHandles(r.tree) = TreeHandles(tree) \cup {handle_counter}


\* C13: after any sequence of insert and remove calls the handle sequence of
\* every leaf is strictly ascending, so the binary search of remove finds every
\* handle the leaf holds at its index.
C13_LeavesAscending ==
    \A n \in DOMAIN tree :
        LET v == tree[n].nodes
        IN  /\ \A i \in 1 .. (Len(v) - 1) : v[i] < v[i + 1]
            /\ \A i \in 1 .. Len(v) : binary_search(v, v[i], 0, Len(v)) = i - 1

\* C13 witness: an insert has just stored its handle in a leaf that already
\* held one.
C13_Witness ==
    /\ last.op = "insert" /\ ~last.err
    /\ \E n \in DOMAIN tree :
          /\ Len(tree[n].nodes) >= 2
          /\ tree[n].nodes[Len(tree[n].nodes)] = handle_counter - 1

\* node n and its ancestors up to the root
RECURSIVE PathToRoot(_)
PathToRoot(n) == IF n = 0 THEN {0} ELSE {n} \cup PathToRoot((n - 1) \div 4)

\* C14 (as claimed): with item positions fixed, every handle stored in a leaf
\* belongs to an item of the map whose position lies inside the region of that
\* leaf and of every ancestor of the leaf.
C14_HandlesInsideRegions ==
    \A n \in DOMAIN tree :
        \A h \in SeqSet(tree[n].nodes) :
            /\ h \in DOMAIN nodes
            /\ \A a \in PathToRoot(n) : in_boundary(tree[a], position(nodes[h]))

\* C15: with item positions fixed, for every handle h stored in the tree whose
\* item is at P, midpoint lines included, insert and remove route P to the same
\* leaf, that leaf holds h, and the tree-level remove(h, P) deletes h and leaves
\* no copy of it in the tree.
C15_RoutingAgrees ==
    \A h \in TreeHandles(tree) \cap DOMAIN nodes :
        LET P == position(nodes[h])
            r == inner_remove(tree, 0, h, P)
        IN  /\ insert_leaf(tree, 0, P) = remove_leaf(tree, 0, P)
            /\ StoredAt(tree, h, P)
            /\ r.ret = h
            /\ Occurrences(r.tree, DOMAIN r.tree, h) = 0

\* C15 witness: a handle whose item lies on the midpoint lines of the root's
\* first child, (1,1) in (0,0)-(2,2), is stored in a leaf two levels below the
\* root, while another handle whose item sits on the root's midpoint (2,2) is
\* stored in the sibling leaf (1,1)-(2,2).
C15_Witness ==
    /\ tree[0].quads
    /\ 1 \in DOMAIN tree /\ tree[1].quads
    /\ \E h \in SeqSet(tree[5].nodes) :
          h \in DOMAIN nodes /\ position(nodes[h]) = <<1, 1>>
    /\ \E k \in SeqSet(tree[8].nodes) :
          k \in DOMAIN nodes /\ position(nodes[k]) = <<2, 2>>

\* C16 (as claimed): for every query (pos, r), r >= 0, search_radius_ids
\* returns every handle that is stored in some leaf and whose item position is
\* within squared distance r * r of pos.
C16_PruningConservative ==
    \A q \in QueryPositions, r \in Radii :
        \A h \in TreeHandles(tree) \cap DOMAIN nodes :
            within(position(nodes[h]), q, r) =>
                h \in SeqSet(search_radius_ids(tree, q, r))

\* position p lies inside the node's region, edges included
InRegion(self, p) ==
    /\ self.top_left[1] <= p[1] /\ p[1] <= self.bot_right[1]
    /\ self.top_left[2] <= p[2] /\ p[2] <= self.bot_right[2]

\* C16 (amended): for every query (pos, r), r >= 0, search_radius_ids returns
\* every handle stored in a leaf whose item position is within r * r of pos and
\* lies inside the region of that leaf; and the overlap test skips no node
\* whose region contains that position.
C16_PruningConservativeFiled ==
    \A n \in DOMAIN tree :
        \A h \in SeqSet(tree[n].nodes) \cap DOMAIN nodes :
            LET p == position(nodes[h])
            IN  InRegion(tree[n], p) =>
                    \A q \in QueryPositions, r \in Radii :
                        within(p, q, r) =>
                            /\ h \in SeqSet(search_radius_ids(tree, q, r))
                            /\ \A c \in DOMAIN tree \ {0} :
                                  InRegion(tree[c], p) => contains_circle(tree[c], q, r)

\* C16 witness: the root has split, a query returns a handle whose item lies
\* inside the leaf that stores it while the overlap test prunes another child,
\* and another stored item has moved out of the region of the leaf that holds
\* its handle.
C16_Witness ==
    /\ tree[0].quads
    /\ \E n \in DOMAIN tree :
          \E h \in SeqSet(tree[n].nodes) \cap DOMAIN nodes :
              /\ InRegion(tree[n], position(nodes[h]))
              /\ \E q \in QueryPositions, r \in Radii :
                    /\ within(position(nodes[h]), q, r)
                    /\ h \in SeqSet(search_radius_ids(tree, q, r))
                    /\ \E i \in 0 .. 3 : ~contains_circle(tree[quad(0, i)], q, r)
    /\ \E n \in DOMAIN tree :
          \E k \in SeqSet(tree[n].nodes) \cap DOMAIN nodes :
              ~InRegion(tree[n], position(nodes[k]))

\* both edges of the node's region are longer than min_size
Splittable(self) ==
    /\ Abs(self.top_left[1] - self.bot_right[1]) > min_size
    /\ Abs(self.top_left[2] - self.bot_right[2]) > min_size

\* C17 (as claimed): in every reachable state every leaf holds at most
\* max_nodes handles.
C17_LeafCapacity ==
    \A n \in DOMAIN tree : Len(tree[n].nodes) <= max_nodes

\* C17 (amended): in every reachable state every leaf whose edges are both
\* longer than min_size holds at most max_nodes handles.
C17_SplittableLeafCapacity ==
    \A n \in DOMAIN tree :
        Splittable(tree[n]) => Len(tree[n].nodes) <= max_nodes

\* C17 witness: a leaf with both edges above min_size is at capacity beside a
\* node below the root that was such a leaf and split when an insert reached
\* it at capacity.
C17_Witness ==
    /\ tree[0].quads
    /\ \E n \in DOMAIN tree :
          /\ ~tree[n].quads /\ Splittable(tree[n])
          /\ Len(tree[n].nodes) = max_nodes
    /\ \E m \in DOMAIN tree \ {0} : tree[m].quads

\* the nodes of t that are internal
Internal(t) == {n \in DOMAIN t : t[n].quads}

\* tree-level calls on the current tree: an insert turns into an internal node
\* at most the leaf it is routed to, and only one that is at capacity with both
\* edges above min_size; a remove changes neither the node set nor which nodes
\* are leaves
SplitOnlyWhereRouted ==
    /\ \A pos \in Grid :
          LET r == inner_insert(tree, 0, pos, handle_counter)
          IN  \A n \in Internal(r.tree) \ Internal(tree) :
                  /\ n = insert_leaf(tree, 0, pos)
                  /\ Len(tree[n].nodes) + 1 > max_nodes
                  /\ Splittable(tree[n])
    /\ \A id \in Handles, pos \in Grid :
          LET r == inner_remove(tree, 0, id, pos)
          IN  DOMAIN r.tree = DOMAIN tree /\ Internal(r.tree) = Internal(tree)

\* C18: a leaf turns into an internal node only during an insert routed to it
\* (the tree-level insert, which the insert and reinsert calls run), only when
\* it is at capacity and only when both edges of its region are longer than
\* min_size; a leaf with an edge <= min_size never splits, and no remove
\* changes which nodes are leaves (searches do not write to the tree).
C18_SplitOnlyOnInsert ==
    /\ []SplitOnlyWhereRouted
    /\ [][/\ Internal(tree) \subseteq Internal(tree')
          /\ \A n \in Internal(tree') \ Internal(tree) :
                /\ n \in DOMAIN tree
                /\ last'.op \in {"insert", "reinsert"}
                /\ Len(tree[n].nodes) >= max_nodes
                /\ Splittable(tree[n])
          /\ last'.op \in {"remove", "move"} =>
                (DOMAIN tree' = DOMAIN tree /\ Internal(tree') = Internal(tree))]_vars

\* C18 witness: a leaf with an edge of min_size has taken a handle beyond
\* max_nodes without splitting, below two nodes that did split.
C18_Witness ==
    /\ last.op \in {"insert", "reinsert"} /\ ~last.err
    /\ tree[0].quads
    /\ \E n \in DOMAIN tree :
          /\ ~tree[n].quads /\ ~Splittable(tree[n])
          /\ Len(tree[n].nodes) > max_nodes
          /\ tree[(n - 1) \div 4].quads /\ (n - 1) \div 4 # 0

\* C19 (as claimed): after every completed insert, remove or reinsert call,
\* whatever positions the caller passed, every handle stored in a leaf is a key
\* of the item map, so no search_radius hits a missing item.
C19_TreeHandlesInMap ==
    /\ TreeHandles(tree) \subseteq DOMAIN nodes
    /\ \A q \in QueryPositions, r \in Radii : ~search_radius(nodes, tree, q, r).panic

\* C20 (as claimed): after any sequence of insert, remove and reinsert calls,
\* reinsert with an old_pos that is not where the handle is stored included,
\* no handle occurs more than once in the tree, in one leaf or in two, so
\* search_radius_ids never returns the same handle twice.
C20_NoHandleTwice ==
    /\ \A h \in TreeHandles(tree) : Occurrences(tree, DOMAIN tree, h) = 1
    /\ \A q \in QueryPositions, r \in Radii : NoDup(search_radius_ids(tree, q, r))

====
